---------------------------- MODULE Spec2Model ----------------------------
(* Request dispatch of the luddite service: service construction and     *)
(* set-up (NewService, AddHandler, AddResource, Run), and ServeHTTP: the *)
(* CORS pre-check, the correlation id, the pooled response writer and    *)
(* handler details, the middleware chain (content negotiator, API        *)
(* version handler, caller-added handlers), routing, the recovery of     *)
(* panics and the access log, as implemented by service.go,              *)
(* negotiator.go and the version handler; and the stoppable listener     *)
(* that Service.run serves on.                                           *)
EXTENDS Integers, Sequences, FiniteSets, TLC

VARIABLES
    phase,      \* "setup" until Service.Run, then "serving"
    config,     \* ServiceConfig: Version.Min, Version.Max, Metrics.Enabled, CORS.Enabled
    handlers,   \* Service.handlers, the middleware stack
    added,      \* handlers passed to AddHandler by the caller, in call order
    globalRouter, \* paths registered on Service.globalRouter
    apiRouters, \* Service.apiRouters: version -> registered paths
    req,        \* the request being served (method, headers, path)
    res,        \* the responseWriter of the request, with the headers and body behind it
    d,          \* the handlerDetails of the request
    pc,         \* position of ServeHTTP: "idle", "chain", "finalize", "done", "returned"
    idx,        \* index of the next middleware handler to run
    ran,        \* components that served the request so far, in order
    router,     \* version of the API router the request was dispatched to (0: none)
    rcv,        \* value of the panic raised below the span (NoPanic when none)
    trace,      \* trace id and parent id the request is traced with
    held,       \* which pooled objects ServeHTTP holds (res, d are not nil)
    acquired,   \* the pooled objects as they came out of the pools, before init
    puts,       \* calls of Put made for the request, per pool
    resPool,    \* responseWriterPool: the objects in it, as they were put
    dPool,      \* handlerDetailsPool: the objects in it, as they were put
    accessLog,  \* access-log records emitted for the request
    serviceLog, \* entries of the service's default logger for the request
    escaped,    \* value of a panic raised outside the span's recovery (NoPanic when none)
    listener,   \* state of the stoppable listener: "none", "accepting", "draining", "closed"
    conns,      \* connection -> "free", "serving", "served"
    runErr,     \* what Service.Run returned: NotReturned, NoError or the serve error
    once,       \* the service's sync.Once: "new", "running", "done"
    calls,      \* caller of Service.Run -> position of the call and what it returned
    runs,       \* executions of Service.run so far
    lastAdd,    \* the last call of AddResource: its version and what it returned
    tasks,      \* goroutine in ServeHTTP -> its position and the objects it refers to
    heap,       \* the responseWriter and handlerDetails objects, by reference
    pools,      \* references the two pools hold while requests are served concurrently
    schemaCall  \* the request at the schema handler: route parameters and response

spanVars == <<trace, held, acquired, puts, accessLog, serviceLog, escaped>>
poolVars == <<resPool, dPool>>
listenerVars == <<listener, conns, runErr>>
runVars == <<once, calls, runs>>
taskVars == <<tasks, heap, pools>>

vars == <<phase, config, handlers, added, globalRouter, apiRouters,
          req, res, d, pc, idx, ran, router, rcv,
          trace, held, acquired, puts, resPool, dPool,
          accessLog, serviceLog, escaped, listener, conns, runErr,
          once, calls, runs, lastAdd, tasks, heap, pools, schemaCall>>

-----------------------------------------------------------------------------
(* Bounds *)

MaxVersion == 2      \* largest Version.Max of a service
MaxAccept == 2       \* media ranges in an Accept header
MaxResources == 1    \* successful calls of AddResource
MaxConns == 3        \* connections the listener accepts
MaxCallers == 2      \* callers of Service.Run
MaxTasks == 2        \* requests served at the same time
MaxParam == 2        \* characters in the version parameter of a schema request

-----------------------------------------------------------------------------
(* Constants of the program *)

StatusBadRequest == 400
StatusForbidden == 403
StatusNotFound == 404
StatusNotAcceptable == 406
StatusGone == 410
StatusTeapot == 418
StatusInternalServerError == 500
StatusNotImplemented == 501
StatusOK == 200

ContentTypeJson == "application/json"
ContentTypeCss == "text/css"
ContentTypePlain == "text/plain"
ContentTypeXml == "application/xml"
ContentTypeHtml == "text/html"
ContentTypeGif == "image/gif"
ContentTypePng == "image/png"
ContentTypeOctetStream == "application/octet-stream"
ContentTypeCsv == "text/csv"

negotiatedContentTypes ==
    << ContentTypeJson, ContentTypeCss, ContentTypePlain, ContentTypeXml,
       ContentTypeHtml, ContentTypeGif, ContentTypePng, ContentTypeOctetStream >>

EcodeApiVersionInvalid == "API_VERSION_INVALID"
EcodeApiVersionTooOld == "API_VERSION_TOO_OLD"
EcodeApiVersionTooNew == "API_VERSION_TOO_NEW"
EcodeInternal == "INTERNAL"

NoPanic == "none"
Canceled == "context canceled"
NoBody == [code |-> "", arg |-> 0]
NoArg == 0

HandlerBegin == "luddite.ServeHTTP.begin"

NoRequest ==
    [method |-> "", apiVersion |-> << >>, accept |-> << >>,
     requestId |-> << >>, inhibitResponse |-> "", path |-> ""]

-----------------------------------------------------------------------------
(* Strings are sequences of one-character strings, so that parsing and   *)
(* formatting are computed and not assumed.  http.Header.Get returns ""  *)
(* for an absent header: the empty sequence.                             *)

DigitChars == << "0", "1", "2", "3", "4", "5", "6", "7", "8", "9" >>

IsDigit(c) == \E i \in 1..10 : DigitChars[i] = c

DigitVal(c) == (CHOOSE i \in 1..10 : DigitChars[i] = c) - 1

RECURSIVE ParseDigits(_, _)
ParseDigits(s, acc) ==
    IF s = << >> THEN acc
    ELSE ParseDigits(Tail(s), acc * 10 + DigitVal(Head(s)))

(* strconv.Atoi: an optional sign, then at least one decimal digit. *)
Atoi(s) ==
    LET signed == s # << >> /\ Head(s) \in {"+", "-"}
        body == IF signed THEN Tail(s) ELSE s
        ok == body # << >> /\ \A i \in 1..Len(body) : IsDigit(body[i])
        n == IF ok THEN ParseDigits(body, 0) ELSE 0
    IN  [err |-> ~ok,
         val |-> IF signed /\ Head(s) = "-" THEN 0 - n ELSE n]

RECURSIVE FormatDigits(_)
FormatDigits(n) ==
    IF n < 10 THEN << DigitChars[n + 1] >>
    ELSE FormatDigits(n \div 10) \o << DigitChars[(n % 10) + 1] >>

(* strconv.Itoa *)
Itoa(n) == IF n < 0 THEN << "-" >> \o FormatDigits(0 - n) ELSE FormatDigits(n)

(* An int64 is kept as a sign and the decimal digits of its magnitude,   *)
(* without leading zeros, so that the whole 64-bit range is there.       *)
Int64Zero == [neg |-> FALSE, mag |-> << "0" >>]

MaxInt64 ==
    [neg |-> FALSE,
     mag |-> << "9", "2", "2", "3", "3", "7", "2", "0", "3", "6",
                "8", "5", "4", "7", "7", "5", "8", "0", "7" >>]

MinInt64 ==
    [neg |-> TRUE,
     mag |-> << "9", "2", "2", "3", "3", "7", "2", "0", "3", "6",
                "8", "5", "4", "7", "7", "5", "8", "0", "8" >>]

RECURSIVE StripZeros(_)
StripZeros(s) ==
    IF Len(s) > 1 /\ Head(s) = "0" THEN StripZeros(Tail(s)) ELSE s

RECURSIVE LexLess(_, _)
LexLess(a, b) ==
    IF a = << >> THEN FALSE
    ELSE IF Head(a) # Head(b) THEN DigitVal(Head(a)) < DigitVal(Head(b))
    ELSE LexLess(Tail(a), Tail(b))

(* a < b for magnitudes without leading zeros *)
DigitsLess(a, b) ==
    Len(a) < Len(b) \/ (Len(a) = Len(b) /\ LexLess(a, b))

(* strconv.ParseInt(s, 10, 64): a syntax error gives 0, a value out of   *)
(* range gives the nearest int64, both with an error.                    *)
ParseInt(s) ==
    LET signed == s # << >> /\ Head(s) \in {"+", "-"}
        body == IF signed THEN Tail(s) ELSE s
        ok == body # << >> /\ \A i \in 1..Len(body) : IsDigit(body[i])
        neg == signed /\ Head(s) = "-"
        mag == StripZeros(body)
    IN  IF ~ok THEN [err |-> TRUE, val |-> Int64Zero]
        ELSE IF ~neg /\ DigitsLess(MaxInt64.mag, mag)
        THEN [err |-> TRUE, val |-> MaxInt64]
        ELSE IF neg /\ DigitsLess(MinInt64.mag, mag)
        THEN [err |-> TRUE, val |-> MinInt64]
        ELSE [err |-> FALSE, val |-> [neg |-> neg /\ mag # << "0" >>, mag |-> mag]]

(* strconv.FormatInt(v, 10) *)
FormatInt(v) == IF v.neg THEN << "-" >> \o v.mag ELSE v.mag

(* v > 0 *)
Positive(v) == ~v.neg /\ v.mag # << "0" >>

(* strings.Split(s, sep) for a one-character separator *)
RECURSIVE Split(_, _)
Split(s, sep) ==
    IF \A i \in 1..Len(s) : s[i] # sep THEN << s >>
    ELSE LET k == CHOOSE i \in 1..Len(s) :
                    s[i] = sep /\ \A j \in 1..(i - 1) : s[j] # sep
         IN  << SubSeq(s, 1, k - 1) >> \o Split(SubSeq(s, k + 1, Len(s)), sep)

-----------------------------------------------------------------------------
(* The response writer and the response helpers *)

(* A responseWriter with nothing written, in front of a connection on    *)
(* which no header is set and no body is written.  written, status and   *)
(* size are the fields of the pooled object; writes counts the headers   *)
(* sent to the connection.                                               *)
NewResponseWriter ==
    [written |-> FALSE, status |-> 0, size |-> 0, writes |-> 0, body |-> NoBody,
     apiVersion |-> << >>, contentType |-> "", requestId |-> << >>,
     inhibitResponse |-> "", cors |-> FALSE]

(* A handlerDetails with no value set. *)
NewHandlerDetails ==
    [apiVersion |-> 0, requestId |-> << >>, progress |-> "", request |-> NoRequest]

(* responseWriter.WriteHeader: records the status and marks the response written. *)
WriteHeader(rw, status) ==
    [rw EXCEPT !.written = TRUE, !.status = status, !.writes = @ + 1]

NewError(code, arg) == [code |-> code, arg |-> arg]

(* WriteResponse: serializes the payload in the negotiated representation; *)
(* with a payload and no representation header it answers 406 instead.     *)
WriteResponse(rw, status, v) ==
    IF v # NoBody /\ rw.contentType = ""
    THEN WriteHeader(rw, StatusNotAcceptable)
    ELSE IF v = NoBody THEN WriteHeader(rw, status)
    ELSE [WriteHeader(rw, status) EXCEPT !.body = v, !.size = @ + 1]

(* The fields of a responseWriter that stay in the pooled object. *)
Pooled(rw) == [written |-> rw.written, status |-> rw.status, size |-> rw.size]

(* responseWriter.init: the pooled object is reset. *)
responseWriterInit(o) == [o EXCEPT !.written = FALSE, !.status = 0, !.size = 0]

(* The pooled object o in front of the connection rw. *)
Wrap(o, rw) ==
    [rw EXCEPT !.written = o.written, !.status = o.status, !.size = o.size]

(* handlerDetails.init: every field is set for the new request. *)
handlerDetailsInit(o, rq, requestId, progress) ==
    [o EXCEPT !.apiVersion = 0, !.requestId = requestId,
              !.progress = progress, !.request = rq]

-----------------------------------------------------------------------------
(* Built-in middleware *)

RECURSIVE FirstAcceptable(_, _)
FirstAcceptable(accept, alternatives) ==
    IF accept = << >> THEN [err |-> TRUE, value |-> ""]
    ELSE IF \E i \in 1..Len(alternatives) : alternatives[i] = Head(accept)
         THEN [err |-> FALSE, value |-> Head(accept)]
         ELSE FirstAcceptable(Tail(accept), alternatives)

(* negotiation.NegotiateAccept: the first media range of the header, in  *)
(* preference order, that is one of the alternatives; an error if none.  *)
NegotiateAccept(header, alternatives) == FirstAcceptable(header, alternatives)

(* Variant: without an Accept header the last accepted format is taken. *)
negotiatorServeHTTP_DefaultLast(acceptedFormats, rw, rq) ==
    LET accept == IF rq.accept = << >>
                  THEN << acceptedFormats[Len(acceptedFormats)] >> ELSE rq.accept
        format == NegotiateAccept(accept, acceptedFormats)
    IN  IF format.err
        THEN WriteHeader(rw, StatusNotAcceptable)
        ELSE [rw EXCEPT !.contentType = format.value]

(* negotiator.ServeHTTP *)
negotiatorServeHTTP(acceptedFormats, rw, rq) ==
    LET accept == IF rq.accept = << >> THEN << acceptedFormats[1] >> ELSE rq.accept
        format == NegotiateAccept(accept, acceptedFormats)
    IN  IF format.err
        THEN WriteHeader(rw, StatusNotAcceptable)
        ELSE [rw EXCEPT !.contentType = format.value]

(* version.ServeHTTP, a rejection: the error response is written and the *)
(* handler details are not touched.                                      *)
versionReject(rw, hd, status, code, arg) ==
    [res |-> WriteResponse(rw, status, NewError(code, arg)), d |-> hd]

(* version.ServeHTTP, success: the version is added to the response      *)
(* headers and stored in the handler details.                            *)
versionAccept(rw, hd, version) ==
    [res |-> [rw EXCEPT !.apiVersion = Append(@, Itoa(version))],
     d |-> [hd EXCEPT !.apiVersion = version]]

(* Variant: an absent header defaults to the minimum version. *)
versionServeHTTP_DefaultMin(minVersion, maxVersion, rw, hd, rq) ==
    LET s == rq.apiVersion
        a == Atoi(s)
    IN  IF s # << >> /\ (a.err \/ a.val < 1)
        THEN versionReject(rw, hd, StatusBadRequest, EcodeApiVersionInvalid, NoArg)
        ELSE LET version == IF s # << >> THEN a.val ELSE minVersion
             IN  IF version < minVersion
                 THEN versionReject(rw, hd, StatusGone, EcodeApiVersionTooOld, minVersion)
                 ELSE IF version > maxVersion
                 THEN versionReject(rw, hd, StatusNotImplemented,
                                    EcodeApiVersionTooNew, maxVersion)
                 ELSE versionAccept(rw, hd, version)

(* Variant: the lower range check is missing. *)
versionServeHTTP_NoMinCheck(minVersion, maxVersion, rw, hd, rq) ==
    LET s == rq.apiVersion
        a == Atoi(s)
    IN  IF s # << >> /\ (a.err \/ a.val < 1)
        THEN versionReject(rw, hd, StatusBadRequest, EcodeApiVersionInvalid, NoArg)
        ELSE LET version == IF s # << >> THEN a.val ELSE maxVersion
             IN  IF version > maxVersion
                 THEN versionReject(rw, hd, StatusNotImplemented,
                                    EcodeApiVersionTooNew, maxVersion)
                 ELSE versionAccept(rw, hd, version)

(* Variant: the upper range check compares with the minimum version. *)
versionServeHTTP_MaxCheckOnMin(minVersion, maxVersion, rw, hd, rq) ==
    LET s == rq.apiVersion
        a == Atoi(s)
    IN  IF s # << >> /\ (a.err \/ a.val < 1)
        THEN versionReject(rw, hd, StatusBadRequest, EcodeApiVersionInvalid, NoArg)
        ELSE LET version == IF s # << >> THEN a.val ELSE maxVersion
             IN  IF version < minVersion
                 THEN versionReject(rw, hd, StatusGone, EcodeApiVersionTooOld, minVersion)
                 ELSE IF version > maxVersion
                 THEN versionReject(rw, hd, StatusNotImplemented,
                                    EcodeApiVersionTooNew, minVersion)
                 ELSE versionAccept(rw, hd, version)

(* Variant: the validity check lets zero through (i < 0 for i < 1). *)
versionServeHTTP_ZeroAllowed(minVersion, maxVersion, rw, hd, rq) ==
    LET s == rq.apiVersion
        a == Atoi(s)
    IN  IF s # << >> /\ (a.err \/ a.val < 0)
        THEN versionReject(rw, hd, StatusBadRequest, EcodeApiVersionInvalid, NoArg)
        ELSE LET version == IF s # << >> THEN a.val ELSE maxVersion
             IN  IF version < minVersion
                 THEN versionReject(rw, hd, StatusGone, EcodeApiVersionTooOld, minVersion)
                 ELSE IF version > maxVersion
                 THEN versionReject(rw, hd, StatusNotImplemented,
                                    EcodeApiVersionTooNew, maxVersion)
                 ELSE versionAccept(rw, hd, version)

(* Variant: the version is stored in the handler details before the     *)
(* range check.                                                          *)
versionServeHTTP_EarlyContext(minVersion, maxVersion, rw, hd, rq) ==
    LET s == rq.apiVersion
        a == Atoi(s)
    IN  IF s # << >> /\ (a.err \/ a.val < 1)
        THEN versionReject(rw, hd, StatusBadRequest, EcodeApiVersionInvalid, NoArg)
        ELSE LET version == IF s # << >> THEN a.val ELSE maxVersion
                 hd1 == [hd EXCEPT !.apiVersion = version]
             IN  IF version < minVersion
                 THEN versionReject(rw, hd1, StatusGone, EcodeApiVersionTooOld, minVersion)
                 ELSE IF version > maxVersion
                 THEN versionReject(rw, hd1, StatusNotImplemented,
                                    EcodeApiVersionTooNew, maxVersion)
                 ELSE versionAccept(rw, hd1, version)

(* version.ServeHTTP: the response writer and handler details it leaves. *)
versionServeHTTP(minVersion, maxVersion, rw, hd, rq) ==
    LET s == rq.apiVersion
        a == Atoi(s)
    IN  IF s # << >> /\ (a.err \/ a.val < 1)
        THEN versionReject(rw, hd, StatusBadRequest, EcodeApiVersionInvalid, NoArg)
        ELSE LET version == IF s # << >> THEN a.val ELSE maxVersion
             IN  IF version < minVersion
                 THEN versionReject(rw, hd, StatusGone, EcodeApiVersionTooOld, minVersion)
                 ELSE IF version > maxVersion
                 THEN versionReject(rw, hd, StatusNotImplemented,
                                    EcodeApiVersionTooNew, maxVersion)
                 ELSE versionAccept(rw, hd, version)

-----------------------------------------------------------------------------
(* Inputs *)

(* Middleware the caller may add, each at most once. *)
CallerHandlers == {"auth", "limit"}

(* What a caller's middleware or a resource handler does with a request: *)
(* it lets it pass or answers it; it may also panic, before or after     *)
(* having answered, with an error or with context.Canceled.              *)
CallerActs == {"pass", "deny"}
ResourceActs == {"body", "empty"}
PanickingCallerActs == CallerActs \cup {"panic", "cancel", "denypanic"}
PanickingResourceActs == ResourceActs \cup {"panic", "cancel", "bodypanic"}

(* The value a handler panics with. *)
PanicOf(act) ==
    IF act \in {"panic", "denypanic", "bodypanic"} THEN "handler panic"
    ELSE IF act = "cancel" THEN Canceled
    ELSE NoPanic

MetricsURIPath == "/metrics"
ResourcePath == "/r"
Paths == {MetricsURIPath, ResourcePath}

(* Values of the X-Spirent-Api-Version request header: absent, the decimal *)
(* strings of -1 .. MaxVersion + 1, and strings that are not plain numbers. *)
VersionHeaders ==
    {<< >>} \cup {Itoa(i) : i \in (0 - 1)..(MaxVersion + 1)}
            \cup {<<"a">>, <<"1", "a">>, <<"+", "1">>, <<"0", "2">>}

MediaRanges == {ContentTypeJson, ContentTypeXml, ContentTypeCsv}

RECURSIVE DistinctSeqsUpTo(_, _)
DistinctSeqsUpTo(S, n) ==
    IF n = 0 THEN {<< >>}
    ELSE LET shorter == DistinctSeqsUpTo(S, n - 1)
             Has(q, x) == \E i \in 1..Len(q) : q[i] = x
         IN  shorter \cup
             {Append(p[1], p[2]) : p \in {t \in shorter \X S : ~Has(t[1], t[2])}}

(* Values of the Accept request header: up to MaxAccept different media  *)
(* ranges in preference order.                                           *)
AcceptHeaders == DistinctSeqsUpTo(MediaRanges, MaxAccept)

Requests ==
    [method : {"GET"}, apiVersion : VersionHeaders, accept : AcceptHeaders,
     requestId : {<< >>}, inhibitResponse : {""}, path : Paths]

(* Values of the X-Request-Id request header: absent, a trace and parent *)
(* id, and values that are not two positive int64 numbers.               *)
RequestIds ==
    { << >>,
      << "5", ":", "7" >>,
      << "+", "5", ":", "0", "7" >>,
      << "5" >>,
      << "5", ":", "7", ":", "9" >>,
      << ":" >>,
      << "a", ":", "7" >>,
      << "5", ":", "b" >>,
      << "0", ":", "7" >>,
      << "5", ":", "0" >>,
      << "-", "5", ":", "7" >>,
      << "5", ":", "-", "7" >>,
      MaxInt64.mag \o << ":", "7" >>,
      MinInt64.mag \o << ":", "7" >>,
      << "5", ":" >> \o MinInt64.mag }

(* The ids trace.GenerateID hands out. *)
GeneratedIDs == {[neg |-> FALSE, mag |-> << "7", "1" >>]}

(* Values of the X-Spirent-Inhibit-Response request header: absent, and *)
(* values that ask and do not ask for the body to be left out.          *)
InhibitHeaders == {"", "true", "false"}

(* Requests with a method and a correlation header, for services with    *)
(* and without CORS, and requests that carry the inhibit-response header *)
(* with an Accept header that can and cannot be met.                     *)
ServeRequests ==
    [method : {"GET", "OPTIONS"}, apiVersion : {<< >>, << "3" >>},
     accept : {<< >>}, requestId : {<< >>}, inhibitResponse : {""},
     path : {MetricsURIPath, ResourcePath}]
    \cup
    [method : {"GET"}, apiVersion : {<< >>}, accept : {<< >>},
     requestId : RequestIds, inhibitResponse : {""}, path : {ResourcePath}]
    \cup
    [method : {"GET"}, apiVersion : {<< >>}, accept : {<< >>, << ContentTypeCsv >>},
     requestId : {<< >>}, inhibitResponse : InhibitHeaders \ {""},
     path : {ResourcePath}]

VersionRanges ==
    {r \in [min : 1..MaxVersion, max : 1..MaxVersion] : r.min <= r.max}

(* Config.Metrics.Enabled of the services considered. *)
MetricsEnabled == {TRUE}

ServiceConfigs ==
    {[min |-> r.min, max |-> r.max, metrics |-> m, cors |-> FALSE] :
       r \in VersionRanges, m \in MetricsEnabled}

(* Services with and without CORS, for one version range. *)
CorsServiceConfigs ==
    {[min |-> 1, max |-> 2, metrics |-> TRUE, cors |-> c] : c \in BOOLEAN}

Conns == 1..MaxConns

NotReturned == "running"
NoError == "nil"
(* The response of a request to the schema handler, before the handler   *)
(* ran: no status, the Content-Type the negotiator chose, no body, no    *)
(* file asked of the file system.                                        *)
NoSchemaResponse ==
    [status |-> 0, contentType |-> ContentTypeJson, body |-> << >>, file |-> << >>]

NoSchemaCall ==
    [version |-> << >>, filepath |-> [name |-> "", ext |-> ""],
     rw |-> NoSchemaResponse, served |-> FALSE]

(* The error of Service.Router for a version outside of [min, max], and  *)
(* the record of AddResource before its first call.                      *)
OutOfRange == "API version is out of range"
NoAdd == [version |-> 0, err |-> "none"]

(* The callers of Service.Run, and a caller that has not called. *)
Callers == 1..MaxCallers
NoCall == [pc |-> "idle", err |-> NotReturned]

(* The goroutines that serve requests at the same time, each with its    *)
(* position in ServeHTTP and its res and d (0: nil); the responseWriter  *)
(* and handlerDetails objects there can be, each with the request it was *)
(* initialised for (its connection, status and written flag; its request *)
(* id and version), and such objects when they carry the state of no     *)
(* request that is being served: as New makes them, or as a request that *)
(* is over has left them.                                                *)
Tasks == 1..MaxTasks
Objects == 1..MaxTasks
NoTask == [pc |-> "idle", res |-> 0, d |-> 0]
NoWriter == 0
NoDetails == 0

NoTrace == [traceId |-> Int64Zero, parentId |-> Int64Zero]
NoObjects == [res |-> Pooled(NewResponseWriter), d |-> NewHandlerDetails]

RegisteredRoutes ==
    LET RECURSIVE Count(_)
        Count(V) == IF V = {} THEN 0
                    ELSE LET v == CHOOSE x \in V : TRUE
                         IN  Cardinality(apiRouters[v]) + Count(V \ {v})
    IN  Count(DOMAIN apiRouters)

-----------------------------------------------------------------------------
(* Service construction and set-up *)

(* Variant: no router is created for the maximum version. *)
Constructed_NoMaxRouter ==
    /\ phase = "setup"
    /\ handlers = << "negotiator", "version" >>
    /\ added = << >>
    /\ globalRouter = {}
    /\ apiRouters = [v \in config.min..(config.max - 1) |-> {}]
    /\ req = NoRequest
    /\ res = NewResponseWriter
    /\ d = NewHandlerDetails
    /\ pc = "idle"
    /\ idx = 1
    /\ ran = << >>
    /\ router = 0
    /\ rcv = NoPanic
    /\ trace = NoTrace
    /\ held = [res |-> FALSE, d |-> FALSE]
    /\ acquired = NoObjects
    /\ puts = [res |-> 0, d |-> 0]
    /\ resPool = {}
    /\ dPool = {}
    /\ accessLog = << >>
    /\ serviceLog = << >>
    /\ escaped = NoPanic
    /\ listener = "none"
    /\ conns = [c \in Conns |-> "free"]
    /\ runErr = NotReturned
    /\ once = "new"
    /\ calls = [c \in Callers |-> NoCall]
    /\ runs = 0
    /\ lastAdd = NoAdd
    /\ tasks = [t \in Tasks |-> NoTask]
    /\ heap = [res |-> [o \in Objects |-> NoWriter], d |-> [o \in Objects |-> NoDetails]]
    /\ pools = [res |-> {}, d |-> {}]
    /\ schemaCall = NoSchemaCall

(* What holds of every service after NewService: one router per          *)
(* supported version, the two default middleware handlers added in the   *)
(* order of the AddHandler calls, no request, empty pools, no listener.  *)
Constructed ==
    /\ phase = "setup"
    /\ handlers = << "negotiator", "version" >>
    /\ added = << >>
    /\ globalRouter = {}
    /\ apiRouters = [v \in config.min..config.max |-> {}]
    /\ req = NoRequest
    /\ res = NewResponseWriter
    /\ d = NewHandlerDetails
    /\ pc = "idle"
    /\ idx = 1
    /\ ran = << >>
    /\ router = 0
    /\ rcv = NoPanic
    /\ trace = NoTrace
    /\ held = [res |-> FALSE, d |-> FALSE]
    /\ acquired = NoObjects
    /\ puts = [res |-> 0, d |-> 0]
    /\ resPool = {}
    /\ dPool = {}
    /\ accessLog = << >>
    /\ serviceLog = << >>
    /\ escaped = NoPanic
    /\ listener = "none"
    /\ conns = [c \in Conns |-> "free"]
    /\ runErr = NotReturned
    /\ once = "new"
    /\ calls = [c \in Callers |-> NoCall]
    /\ runs = 0
    /\ lastAdd = NoAdd
    /\ tasks = [t \in Tasks |-> NoTask]
    /\ heap = [res |-> [o \in Objects |-> NoWriter], d |-> [o \in Objects |-> NoDetails]]
    /\ pools = [res |-> {}, d |-> {}]
    /\ schemaCall = NoSchemaCall

(* NewService *)
Init ==
    /\ config \in ServiceConfigs
    /\ Constructed

(* Variant: only the maximum is checked. *)
Router_MaxOnly(version) ==
    IF version > config.max
    THEN [err |-> TRUE, router |-> 0]
    ELSE [err |-> FALSE, router |-> version]

(* Service.Router: the router of a version, or an error out of range. *)
Router(version) ==
    IF version < config.min \/ version > config.max
    THEN [err |-> TRUE, router |-> 0]
    ELSE [err |-> FALSE, router |-> version]

(* The versions AddResource is called with. *)
Versions == 0..(MaxVersion + 1)

(* Variant: the handler is put in front of the stack. *)
AddHandler_Prepend(h) ==
    /\ phase = "setup"
    /\ \A i \in 1..Len(added) : added[i] # h
    /\ handlers' = << h >> \o handlers
    /\ added' = Append(added, h)
    /\ UNCHANGED <<phase, config, globalRouter, apiRouters,
                   req, res, d, pc, idx, ran, router, rcv>>
    /\ UNCHANGED <<spanVars, poolVars, listenerVars>>
    /\ UNCHANGED <<lastAdd, runVars, taskVars, schemaCall>>

(* Service.AddHandler *)
AddHandler(h) ==
    /\ phase = "setup"
    /\ \A i \in 1..Len(added) : added[i] # h
    /\ handlers' = Append(handlers, h)
    /\ added' = Append(added, h)
    /\ UNCHANGED <<phase, config, globalRouter, apiRouters,
                   req, res, d, pc, idx, ran, router, rcv>>
    /\ UNCHANGED <<spanVars, poolVars, listenerVars>>
    /\ UNCHANGED <<lastAdd, runVars, taskVars, schemaCall>>

(* Service.AddResource *)
AddResource(version, basePath) ==
    /\ phase = "setup"
    /\ Router(version).err \/ RegisteredRoutes < MaxResources
    /\ LET r == Router(version)
       IN  IF r.err
           THEN /\ lastAdd' = [version |-> version, err |-> OutOfRange]
                /\ UNCHANGED apiRouters
           ELSE /\ lastAdd' = [version |-> version, err |-> NoError]
                /\ apiRouters' = [apiRouters EXCEPT ![r.router] = @ \cup {basePath}]
    /\ UNCHANGED <<phase, config, handlers, added, globalRouter,
                   req, res, d, pc, idx, ran, router, rcv>>
    /\ UNCHANGED <<spanVars, poolVars, listenerVars>>
    /\ UNCHANGED <<runVars, taskVars, schemaCall>>

(* Variant: every call of Run executes run. *)
Run_NoOnce(c) ==
    /\ calls[c].pc = "idle"
    /\ calls' = [calls EXCEPT ![c].pc = "run"]
    /\ once' = "running"
    /\ runs' = runs + 1
    /\ phase' = "serving"
    /\ globalRouter' = IF config.metrics THEN globalRouter \cup {MetricsURIPath}
                       ELSE globalRouter
    /\ listener' = "accepting"
    /\ UNCHANGED <<config, handlers, added, apiRouters,
                   req, res, d, pc, idx, ran, router, rcv>>
    /\ UNCHANGED <<spanVars, poolVars, conns, runErr>>
    /\ UNCHANGED <<lastAdd, taskVars, schemaCall>>

(* Service.Run called by c: s.once.Do lets the first call execute run,   *)
(* which adds the metrics route and serves on a new listener; a call     *)
(* made while run executes waits in once.Do, and a call made after run   *)
(* has returned comes back at once, its err never assigned.              *)
Run(c) ==
    /\ calls[c].pc = "idle"
    /\ IF once = "new"
       THEN /\ calls' = [calls EXCEPT ![c].pc = "run"]
            /\ once' = "running"
            /\ runs' = runs + 1
            /\ phase' = "serving"
            /\ globalRouter' = IF config.metrics
                               THEN globalRouter \cup {MetricsURIPath}
                               ELSE globalRouter
            /\ listener' = "accepting"
       ELSE /\ calls' = [calls EXCEPT ![c] = IF once = "done"
                                             THEN [pc |-> "returned", err |-> NoError]
                                             ELSE [pc |-> "blocked", err |-> NotReturned]]
            /\ UNCHANGED <<once, runs, phase, globalRouter, listener>>
    /\ UNCHANGED <<config, handlers, added, apiRouters,
                   req, res, d, pc, idx, ran, router, rcv>>
    /\ UNCHANGED <<spanVars, poolVars, conns, runErr>>
    /\ UNCHANGED <<lastAdd, taskVars, schemaCall>>

(* once.Do returns to a call that waited in it: Run returns nil. *)
RunUnblocked(c) ==
    /\ calls[c].pc = "blocked"
    /\ once = "done"
    /\ calls' = [calls EXCEPT ![c] = [pc |-> "returned", err |-> NoError]]
    /\ UNCHANGED <<phase, config, handlers, added, globalRouter, apiRouters,
                   req, res, d, pc, idx, ran, router, rcv>>
    /\ UNCHANGED <<spanVars, poolVars, listenerVars, once, runs, lastAdd, taskVars, schemaCall>>

-----------------------------------------------------------------------------
(* Service.ServeHTTP *)

(* A caller's middleware: lets the request pass or answers it itself. *)
callerServeHTTP(act, rw) ==
    IF act \in {"deny", "denypanic"}
    THEN WriteResponse(rw, StatusForbidden, NewError("FORBIDDEN", NoArg))
    ELSE rw

(* A resource handler: writes a body, or returns without writing. *)
resourceServeHTTP(act, rw) ==
    IF act \in {"body", "bodypanic"}
    THEN WriteResponse(rw, StatusOK, NewError("RESOURCE", NoArg))
    ELSE rw

(* notFoundHandler *)
notFoundHandler(rw) == WriteHeader(rw, StatusNotFound)

(* The handler of a global route (metrics): writes its own response. *)
globalServeHTTP(rw) ==
    [WriteHeader(rw, StatusOK) EXCEPT !.body = NewError("METRICS", NoArg)]

(* The trace the request runs in: the one named by the X-Request-Id      *)
(* header when both its ids are positive, else a new one with id gen.    *)
ResolveTrace(hdr, gen) ==
    LET parts == IF hdr # << >> THEN Split(hdr, ":") ELSE << >>
        two == hdr # << >> /\ Len(parts) = 2
        traceId == IF two THEN ParseInt(parts[1]).val ELSE Int64Zero
        parentId == IF two THEN ParseInt(parts[2]).val ELSE Int64Zero
    IN  IF Positive(traceId) /\ Positive(parentId)
        THEN [traceId |-> traceId, parentId |-> parentId]
        ELSE [traceId |-> gen, parentId |-> Int64Zero]

(* sync.Pool.Get: an object of the pool, or a new one when it is empty. *)
Get(pool, new) == IF pool = {} THEN {new} ELSE pool

(* Variant: the objects taken from the pools are used as they are. *)
EnterSpan_NoInit(r, gen, o, od) ==
    LET t == ResolveTrace(r.requestId, gen)
        requestId == FormatInt(t.traceId)
        rw == [NewResponseWriter EXCEPT !.requestId = requestId,
                                        !.cors = config.cors]
    IN  /\ trace' = t
        /\ res' = Wrap(o, rw)
        /\ d' = od
        /\ acquired' = [res |-> o, d |-> od]
        /\ resPool' = resPool \ {o}
        /\ dPool' = dPool \ {od}
        /\ held' = [res |-> TRUE, d |-> TRUE]
        /\ pc' = "chain"

(* ServeHTTP up to the middleware loop, for a request that is not ended  *)
(* by the CORS pre-check: the correlation id is resolved and echoed, the *)
(* response writer o and the handler details od are taken from the pools *)
(* and initialised.                                                      *)
EnterSpan(r, gen, o, od) ==
    LET t == ResolveTrace(r.requestId, gen)
        requestId == FormatInt(t.traceId)
        rw == [NewResponseWriter EXCEPT !.requestId = requestId,
                                        !.cors = config.cors]
    IN  /\ trace' = t
        /\ res' = Wrap(responseWriterInit(o), rw)
        /\ d' = handlerDetailsInit(od, r, requestId, HandlerBegin)
        /\ acquired' = [res |-> o, d |-> od]
        /\ resPool' = resPool \ {o}
        /\ dPool' = dPool \ {od}
        /\ held' = [res |-> TRUE, d |-> TRUE]
        /\ pc' = "chain"

(* ServeHTTP ended by the CORS pre-check. *)
PreflightOnly ==
    /\ trace' = NoTrace
    /\ res' = [NewResponseWriter EXCEPT !.cors = TRUE]
    /\ d' = NewHandlerDetails
    /\ acquired' = NoObjects
    /\ held' = [res |-> FALSE, d |-> FALSE]
    /\ pc' = "done"
    /\ UNCHANGED poolVars

(* Variant: an OPTIONS request goes on after the CORS pre-check. *)
Receive_PreflightGoesOn(r) ==
    /\ phase = "serving"
    /\ pc = "idle"
    /\ req' = r
    /\ idx' = 1
    /\ ran' = << >>
    /\ router' = 0
    /\ rcv' = NoPanic
    /\ escaped' = NoPanic
    /\ puts' = [res |-> 0, d |-> 0]
    /\ accessLog' = << >>
    /\ serviceLog' = << >>
    /\ \E gen \in GeneratedIDs :
         \E o \in Get(resPool, Pooled(NewResponseWriter)) :
           \E od \in Get(dPool, NewHandlerDetails) :
             EnterSpan(r, gen, o, od)
    /\ UNCHANGED <<phase, config, handlers, added, globalRouter, apiRouters>>
    /\ UNCHANGED listenerVars
    /\ UNCHANGED <<lastAdd, runVars, taskVars, schemaCall>>

(* A request arrives: the CORS pre-check, which ends an OPTIONS request, *)
(* then the entry of the traced span.                                    *)
Receive(r) ==
    /\ phase = "serving"
    /\ pc = "idle"
    /\ req' = r
    /\ idx' = 1
    /\ ran' = << >>
    /\ router' = 0
    /\ rcv' = NoPanic
    /\ escaped' = NoPanic
    /\ puts' = [res |-> 0, d |-> 0]
    /\ accessLog' = << >>
    /\ serviceLog' = << >>
    /\ IF config.cors /\ r.method = "OPTIONS"
       THEN PreflightOnly
       ELSE \E gen \in GeneratedIDs :
              \E o \in Get(resPool, Pooled(NewResponseWriter)) :
                \E od \in Get(dPool, NewHandlerDetails) :
                  EnterSpan(r, gen, o, od)
    /\ UNCHANGED <<phase, config, handlers, added, globalRouter, apiRouters>>
    /\ UNCHANGED listenerVars
    /\ UNCHANGED <<lastAdd, runVars, taskVars, schemaCall>>

(* What has panicked when a panic leaves ServeHTTP's body before the     *)
(* span finalizer is deferred, and where that can happen: in the CORS    *)
(* pre-check, while the correlation id is resolved, after the response   *)
(* writer is taken from its pool, after the handler details are too.     *)
SetupPanic == "setup panic"
SetupPanicPoints == {"cors", "correlation", "writer", "details"}

(* ServeHTTP for a request during which a panic is raised at point `at`, *)
(* before the span finalizer is deferred: what ServeHTTP has done up to  *)
(* that point stays, and its outermost deferred function runs next.      *)
ReceivePanics(r, at) ==
    /\ phase = "serving"
    /\ pc = "idle"
    /\ at = "cors" => config.cors
    /\ (config.cors /\ r.method = "OPTIONS") => at = "cors"
    /\ req' = r
    /\ idx' = 1
    /\ ran' = << >>
    /\ router' = 0
    /\ rcv' = NoPanic
    /\ escaped' = SetupPanic
    /\ puts' = [res |-> 0, d |-> 0]
    /\ accessLog' = << >>
    /\ serviceLog' = << >>
    /\ pc' = "done"
    /\ \E gen \in GeneratedIDs :
         \E o \in Get(resPool, Pooled(NewResponseWriter)) :
           \E od \in Get(dPool, NewHandlerDetails) :
             LET t == ResolveTrace(r.requestId, gen)
                 requestId == FormatInt(t.traceId)
                 rw == [NewResponseWriter EXCEPT !.requestId = requestId,
                                                 !.cors = config.cors]
             IN  CASE at = "cors" ->
                        /\ trace' = NoTrace
                        /\ res' = NewResponseWriter
                        /\ d' = NewHandlerDetails
                        /\ acquired' = NoObjects
                        /\ held' = [res |-> FALSE, d |-> FALSE]
                        /\ UNCHANGED poolVars
                    [] at = "correlation" ->
                        /\ trace' = NoTrace
                        /\ res' = [NewResponseWriter EXCEPT !.cors = config.cors]
                        /\ d' = NewHandlerDetails
                        /\ acquired' = NoObjects
                        /\ held' = [res |-> FALSE, d |-> FALSE]
                        /\ UNCHANGED poolVars
                    [] at = "writer" ->
                        /\ trace' = t
                        /\ res' = Wrap(responseWriterInit(o), rw)
                        /\ d' = NewHandlerDetails
                        /\ acquired' = [NoObjects EXCEPT !.res = o]
                        /\ held' = [res |-> TRUE, d |-> FALSE]
                        /\ resPool' = resPool \ {o}
                        /\ UNCHANGED dPool
                    [] at = "details" ->
                        /\ trace' = t
                        /\ res' = Wrap(responseWriterInit(o), rw)
                        /\ d' = handlerDetailsInit(od, r, requestId, HandlerBegin)
                        /\ acquired' = [res |-> o, d |-> od]
                        /\ held' = [res |-> TRUE, d |-> TRUE]
                        /\ resPool' = resPool \ {o}
                        /\ dPool' = dPool \ {od}
    /\ UNCHANGED <<phase, config, handlers, added, globalRouter, apiRouters>>
    /\ UNCHANGED listenerVars
    /\ UNCHANGED <<lastAdd, runVars, taskVars, schemaCall>>

(* The result of running middleware handler h on the request. *)
HandlerResult(h, act) ==
    IF h = "negotiator"
    THEN [res |-> negotiatorServeHTTP(negotiatedContentTypes, res, req), d |-> d]
    ELSE IF h = "version"
    THEN versionServeHTTP(config.min, config.max, res, d, req)
    ELSE [res |-> callerServeHTTP(act, res), d |-> d]

(* Variant: the loop does not look at the written flag. *)
RunHandler_NoWrittenCheck(acts) ==
    /\ pc = "chain"
    /\ idx <= Len(handlers)
    /\ \E act \in acts :
         /\ handlers[idx] \in CallerHandlers \/ act = "pass"
         /\ LET out == HandlerResult(handlers[idx], act)
            IN  /\ res' = out.res
                /\ d' = out.d
                /\ rcv' = PanicOf(act)
                /\ IF PanicOf(act) # NoPanic
                   THEN pc' = "finalize" /\ idx' = idx
                   ELSE pc' = "chain" /\ idx' = idx + 1
    /\ ran' = Append(ran, handlers[idx])
    /\ UNCHANGED <<phase, config, handlers, added, globalRouter, apiRouters,
                   req, router>>
    /\ UNCHANGED <<spanVars, poolVars, listenerVars>>
    /\ UNCHANGED <<lastAdd, runVars, taskVars, schemaCall>>

(* One iteration of the middleware loop: run the handler, which does one *)
(* of acts; a panic unwinds to the deferred function of the span, and    *)
(* the chain stops if the handler has written a response.                *)
RunHandler(acts) ==
    /\ pc = "chain"
    /\ idx <= Len(handlers)
    /\ \E act \in acts :
         /\ handlers[idx] \in CallerHandlers \/ act = "pass"
         /\ LET out == HandlerResult(handlers[idx], act)
            IN  /\ res' = out.res
                /\ d' = out.d
                /\ rcv' = PanicOf(act)
                /\ IF PanicOf(act) # NoPanic \/ out.res.written
                   THEN pc' = "finalize" /\ idx' = idx
                   ELSE pc' = "chain" /\ idx' = idx + 1
    /\ ran' = Append(ran, handlers[idx])
    /\ UNCHANGED <<phase, config, handlers, added, globalRouter, apiRouters,
                   req, router>>
    /\ UNCHANGED <<spanVars, poolVars, listenerVars>>
    /\ UNCHANGED <<lastAdd, runVars, taskVars, schemaCall>>

(* Variant: a request without a global route goes to the router of the   *)
(* newest version.                                                       *)
Route_NewestRouter(acts) ==
    /\ pc = "chain"
    /\ idx > Len(handlers)
    /\ pc' = "finalize"
    /\ IF req.path \in globalRouter
       THEN /\ res' = globalServeHTTP(res)
            /\ ran' = Append(ran, "globalRouter")
            /\ UNCHANGED <<router, rcv, d>>
       ELSE /\ router' = config.max
            /\ ran' = Append(ran, "apiRouter")
            /\ IF req.path \in apiRouters[config.max]
               THEN \E act \in acts :
                      /\ res' = resourceServeHTTP(act, res)
                      /\ d' = [d EXCEPT !.progress = "resource"]
                      /\ rcv' = PanicOf(act)
               ELSE /\ res' = notFoundHandler(res)
                    /\ UNCHANGED <<rcv, d>>
    /\ UNCHANGED <<phase, config, handlers, added, globalRouter, apiRouters,
                   req, idx>>
    /\ UNCHANGED <<spanVars, poolVars, listenerVars>>
    /\ UNCHANGED <<lastAdd, runVars, taskVars, schemaCall>>

(* Routing: the global router on a match, else the API router of the     *)
(* version in the handler details, whose resource handler does one of    *)
(* acts.                                                                 *)
Route(acts) ==
    /\ pc = "chain"
    /\ idx > Len(handlers)
    /\ pc' = "finalize"
    /\ IF req.path \in globalRouter
       THEN /\ res' = globalServeHTTP(res)
            /\ ran' = Append(ran, "globalRouter")
            /\ UNCHANGED <<router, rcv, d>>
       ELSE IF d.apiVersion \notin DOMAIN apiRouters
       THEN /\ rcv' = "nil pointer dereference"
            /\ UNCHANGED <<res, ran, router, d>>
       ELSE /\ router' = d.apiVersion
            /\ ran' = Append(ran, "apiRouter")
            /\ IF req.path \in apiRouters[d.apiVersion]
               THEN \E act \in acts :
                      /\ res' = resourceServeHTTP(act, res)
                      /\ d' = [d EXCEPT !.progress = "resource"]
                      /\ rcv' = PanicOf(act)
               ELSE /\ res' = notFoundHandler(res)
                    /\ UNCHANGED <<rcv, d>>
    /\ UNCHANGED <<phase, config, handlers, added, globalRouter, apiRouters,
                   req, idx>>
    /\ UNCHANGED <<spanVars, poolVars, listenerVars>>
    /\ UNCHANGED <<lastAdd, runVars, taskVars, schemaCall>>

(* Variant: after a recovered panic the function returns without the    *)
(* access-log record.                                                    *)
Finalize_NoRecordOnPanic(panics) ==
    /\ pc = "finalize"
    /\ pc' = "done"
    /\ \E fp \in panics :
         IF fp
         THEN /\ escaped' = "finalizer panic"
              /\ UNCHANGED <<res, accessLog, serviceLog>>
         ELSE LET status == IF rcv = NoPanic THEN res.status
                            ELSE IF rcv = Canceled THEN StatusTeapot
                            ELSE StatusInternalServerError
                  resp == IF rcv \in {NoPanic, Canceled} THEN NoBody
                          ELSE NewError(EcodeInternal, NoArg)
              IN  /\ res' = IF rcv = NoPanic THEN res
                            ELSE WriteResponse(res, status, resp)
                  /\ serviceLog' =
                       IF rcv \in {NoPanic, Canceled} THEN serviceLog
                       ELSE Append(serviceLog, [level |-> "error", stack |-> TRUE])
                  /\ accessLog' =
                       IF rcv # NoPanic THEN accessLog
                       ELSE Append(accessLog,
                                   [status |-> status,
                                    level |-> IF status \div 100 # 5 THEN "info"
                                              ELSE "error"])
                  /\ UNCHANGED escaped
    /\ UNCHANGED <<phase, config, handlers, added, globalRouter, apiRouters,
                   req, d, idx, ran, router, rcv>>
    /\ UNCHANGED <<trace, held, acquired, puts, poolVars, listenerVars>>
    /\ UNCHANGED <<lastAdd, runVars, taskVars, schemaCall>>

(* The deferred function of the span: a recovered panic is logged with   *)
(* its stack and answered with a 500 response, unless it is a context    *)
(* cancelation; the response is written for every recovered panic; then  *)
(* the access-log record is emitted.  The function itself panics or not, *)
(* as panics allows.                                                     *)
Finalize(panics) ==
    /\ pc = "finalize"
    /\ pc' = "done"
    /\ \E fp \in panics :
         IF fp
         THEN /\ escaped' = "finalizer panic"
              /\ UNCHANGED <<res, accessLog, serviceLog>>
         ELSE LET status == IF rcv = NoPanic THEN res.status
                            ELSE IF rcv = Canceled THEN StatusTeapot
                            ELSE StatusInternalServerError
                  resp == IF rcv \in {NoPanic, Canceled} THEN NoBody
                          ELSE NewError(EcodeInternal, NoArg)
              IN  /\ res' = IF rcv = NoPanic THEN res
                            ELSE WriteResponse(res, status, resp)
                  /\ serviceLog' =
                       IF rcv \in {NoPanic, Canceled} THEN serviceLog
                       ELSE Append(serviceLog, [level |-> "error", stack |-> TRUE])
                  /\ accessLog' =
                       Append(accessLog,
                              [status |-> status,
                               level |-> IF status \div 100 # 5 THEN "info"
                                         ELSE "error"])
                  /\ UNCHANGED escaped
    /\ UNCHANGED <<phase, config, handlers, added, globalRouter, apiRouters,
                   req, d, idx, ran, router, rcv>>
    /\ UNCHANGED <<trace, held, acquired, puts, poolVars, listenerVars>>
    /\ UNCHANGED <<lastAdd, runVars, taskVars, schemaCall>>

(* Variant: the objects are put back only when no panic got this far. *)
Return_NoPutOnPanic ==
    /\ pc = "done"
    /\ pc' = "returned"
    /\ serviceLog' = IF escaped = NoPanic THEN serviceLog
                     ELSE Append(serviceLog, [level |-> "error", stack |-> TRUE])
    /\ resPool' = IF held.res /\ escaped = NoPanic
                  THEN resPool \cup {Pooled(res)} ELSE resPool
    /\ dPool' = IF held.d /\ escaped = NoPanic THEN dPool \cup {d} ELSE dPool
    /\ puts' = [res |-> puts.res + (IF held.res /\ escaped = NoPanic THEN 1 ELSE 0),
                d |-> puts.d + (IF held.d /\ escaped = NoPanic THEN 1 ELSE 0)]
    /\ UNCHANGED <<phase, config, handlers, added, globalRouter, apiRouters,
                   req, res, d, idx, ran, router, rcv>>
    /\ UNCHANGED <<trace, held, acquired, accessLog, escaped, listenerVars>>
    /\ UNCHANGED <<lastAdd, runVars, taskVars, schemaCall>>

(* Variant: the outermost deferred function answers a panic that got    *)
(* this far with an internal error of its own.                           *)
Return_AnswersPanic ==
    /\ pc = "done"
    /\ pc' = "returned"
    /\ serviceLog' = IF escaped = NoPanic THEN serviceLog
                     ELSE Append(serviceLog, [level |-> "error", stack |-> TRUE])
    /\ res' = IF escaped = NoPanic THEN res
              ELSE WriteResponse(res, StatusInternalServerError,
                                 NewError(EcodeInternal, NoArg))
    /\ resPool' = IF held.res THEN resPool \cup {Pooled(res')} ELSE resPool
    /\ dPool' = IF held.d THEN dPool \cup {d} ELSE dPool
    /\ puts' = [res |-> puts.res + (IF held.res THEN 1 ELSE 0),
                d |-> puts.d + (IF held.d THEN 1 ELSE 0)]
    /\ UNCHANGED <<phase, config, handlers, added, globalRouter, apiRouters,
                   req, d, idx, ran, router, rcv>>
    /\ UNCHANGED <<trace, held, acquired, accessLog, escaped, listenerVars>>
    /\ UNCHANGED <<lastAdd, runVars, taskVars, schemaCall>>

(* The outermost deferred function: a panic that got this far is logged  *)
(* with its stack, and the objects ServeHTTP holds are put back.         *)
Return ==
    /\ pc = "done"
    /\ pc' = "returned"
    /\ serviceLog' = IF escaped = NoPanic THEN serviceLog
                     ELSE Append(serviceLog, [level |-> "error", stack |-> TRUE])
    /\ resPool' = IF held.res THEN resPool \cup {Pooled(res)} ELSE resPool
    /\ dPool' = IF held.d THEN dPool \cup {d} ELSE dPool
    /\ puts' = [res |-> puts.res + (IF held.res THEN 1 ELSE 0),
                d |-> puts.d + (IF held.d THEN 1 ELSE 0)]
    /\ UNCHANGED <<phase, config, handlers, added, globalRouter, apiRouters,
                   req, res, d, idx, ran, router, rcv>>
    /\ UNCHANGED <<trace, held, acquired, accessLog, escaped, listenerVars>>
    /\ UNCHANGED <<lastAdd, runVars, taskVars, schemaCall>>

(* ServeHTTP has returned and the request is gone.  The pools keep what  *)
(* was put into them, or the runtime empties them.                       *)
Returned(keep) ==
    /\ pc = "returned"
    /\ pc' = "idle"
    /\ req' = NoRequest
    /\ res' = NewResponseWriter
    /\ d' = NewHandlerDetails
    /\ idx' = 1
    /\ ran' = << >>
    /\ router' = 0
    /\ rcv' = NoPanic
    /\ trace' = NoTrace
    /\ held' = [res |-> FALSE, d |-> FALSE]
    /\ acquired' = NoObjects
    /\ puts' = [res |-> 0, d |-> 0]
    /\ accessLog' = << >>
    /\ serviceLog' = << >>
    /\ escaped' = NoPanic
    /\ IF keep THEN UNCHANGED poolVars ELSE resPool' = {} /\ dPool' = {}
    /\ UNCHANGED <<phase, config, handlers, added, globalRouter, apiRouters>>
    /\ UNCHANGED listenerVars
    /\ UNCHANGED <<lastAdd, runVars, taskVars, schemaCall>>

(* Requests of every version and Accept header to handlers that do not   *)
(* panic, on services without CORS whose pools the runtime empties       *)
(* between two requests.                                                 *)
Next ==
    \/ \E h \in CallerHandlers : AddHandler(h)
    \/ \E v \in config.min..config.max : AddResource(v, ResourcePath)
    \/ Run(1)
    \/ \E r \in Requests : Receive(r)
    \/ RunHandler(CallerActs)
    \/ Route(ResourceActs)
    \/ Finalize({FALSE})
    \/ Return
    \/ Returned(FALSE)

Spec == Init /\ [][Next]_vars

(* The setting up of a service: handlers, and resources under two base  *)
(* paths with versions inside and outside of the service's range.        *)
SetupPaths == {ResourcePath, "/s"}

NextSetup ==
    \/ \E h \in CallerHandlers : AddHandler(h)
    \/ \E v \in Versions : \E basePath \in SetupPaths : AddResource(v, basePath)
    \/ Run(1)

SpecSetup == Init /\ [][NextSetup]_vars

(* Requests with a correlation header and either method to handlers that *)
(* may panic, on services with and without CORS whose pools keep their   *)
(* objects or not.                                                       *)
InitServe ==
    /\ config \in CorsServiceConfigs
    /\ Constructed

NextServe ==
    \/ AddHandler("auth")
    \/ AddResource(2, ResourcePath)
    \/ Run(1)
    \/ \E r \in ServeRequests : Receive(r)
    \/ \E r \in ServeRequests : \E at \in SetupPanicPoints : ReceivePanics(r, at)
    \/ RunHandler(PanickingCallerActs)
    \/ Route(PanickingResourceActs)
    \/ \E fp \in BOOLEAN : Finalize({fp})
    \/ Return
    \/ \E keep \in BOOLEAN : Returned(keep)

SpecServe == InitServe /\ [][NextServe]_vars

-----------------------------------------------------------------------------
(* The stoppable listener under http.Serve, and the return of Service.Run *)

ListenerStoppedError == "listener stopped"
AcceptError == "accept error"
ServeErrors == {ListenerStoppedError, AcceptError}

(* Accept returns a connection, which http.Serve hands to a task of its own. *)
Accept(c) ==
    /\ listener = "accepting"
    /\ runErr = NotReturned
    /\ conns[c] = "free"
    /\ conns' = [conns EXCEPT ![c] = "serving"]
    /\ UNCHANGED <<phase, config, handlers, added, globalRouter, apiRouters,
                   req, res, d, pc, idx, ran, router, rcv>>
    /\ UNCHANGED <<spanVars, poolVars, listener, runErr>>
    /\ UNCHANGED <<lastAdd, runVars, taskVars, schemaCall>>

(* The request of an accepted connection is served to its end. *)
ServeConn(c) ==
    /\ conns[c] = "serving"
    /\ conns' = [conns EXCEPT ![c] = "served"]
    /\ UNCHANGED <<phase, config, handlers, added, globalRouter, apiRouters,
                   req, res, d, pc, idx, ran, router, rcv>>
    /\ UNCHANGED <<spanVars, poolVars, listener, runErr>>
    /\ UNCHANGED <<lastAdd, runVars, taskVars, schemaCall>>

(* A stop request: the listener accepts no more. *)
Stop ==
    /\ listener = "accepting"
    /\ listener' = "draining"
    /\ UNCHANGED <<phase, config, handlers, added, globalRouter, apiRouters,
                   req, res, d, pc, idx, ran, router, rcv>>
    /\ UNCHANGED <<spanVars, poolVars, conns, runErr>>
    /\ UNCHANGED <<lastAdd, runVars, taskVars, schemaCall>>

(* Variant: every error of http.Serve is returned. *)
RunResult_EveryError(err) == err

(* Service.run: what it returns when http.Serve has returned err. *)
RunResult(err) == IF err = ListenerStoppedError THEN NoError ELSE err

(* Accept fails and http.Serve returns the error: the listener-stopped   *)
(* error when a stop was requested, another error otherwise; Service.Run *)
(* returns.                                                              *)
ServeReturns(err) ==
    /\ phase = "serving"
    /\ runErr = NotReturned
    /\ IF err = ListenerStoppedError THEN listener = "draining"
       ELSE listener = "accepting"
    /\ runErr' = RunResult(err)
    /\ UNCHANGED <<phase, config, handlers, added, globalRouter, apiRouters,
                   req, res, d, pc, idx, ran, router, rcv>>
    /\ UNCHANGED <<spanVars, poolVars, listener, conns>>
    /\ \E c \in Callers :
         /\ calls[c].pc = "run"
         /\ calls' = [calls EXCEPT ![c] = [pc |-> "returned", err |-> RunResult(err)]]
    /\ once' = "done"
    /\ UNCHANGED <<runs, lastAdd, taskVars, schemaCall>>

(* The stopped listener lets go of its socket. *)
Release ==
    /\ listener = "draining"
    /\ runErr # NotReturned
    /\ listener' = "closed"
    /\ UNCHANGED <<phase, config, handlers, added, globalRouter, apiRouters,
                   req, res, d, pc, idx, ran, router, rcv>>
    /\ UNCHANGED <<spanVars, poolVars, conns, runErr>>
    /\ UNCHANGED <<lastAdd, runVars, taskVars, schemaCall>>

NextListener ==
    \/ Run(1)
    \/ \E c \in Conns : Accept(c)
    \/ \E c \in Conns : ServeConn(c)
    \/ Stop
    \/ \E err \in ServeErrors : ServeReturns(err)
    \/ Release

(* Every task of an accepted connection is scheduled, and so is the task *)
(* blocked in Accept.                                                    *)
SpecListener ==
    /\ InitServe
    /\ [][NextListener]_vars
    /\ \A c \in Conns : WF_vars(ServeConn(c))
    /\ WF_vars(ServeReturns(ListenerStoppedError))

(* Service.Run called by several callers, one after the other or at the *)
(* same time, on a service whose listener accepts, is stopped or fails.  *)
NextRun ==
    \/ \E c \in Callers : Run(c)
    \/ \E c \in Callers : RunUnblocked(c)
    \/ \E c \in Conns : Accept(c)
    \/ \E c \in Conns : ServeConn(c)
    \/ Stop
    \/ \E err \in ServeErrors : ServeReturns(err)
    \/ Release

SpecRun == InitServe /\ [][NextRun]_vars

-----------------------------------------------------------------------------
(* schemaHandler.ServeHTTP *)

(* The values of the version route parameter, and of the filepath        *)
(* parameter as a name and an extension.                                 *)
ParamChars == {"v", "w", "+", "-", "0", "1", "2"}

RECURSIVE StringsUpTo(_, _)
StringsUpTo(S, n) ==
    IF n = 0 THEN {<< >>}
    ELSE LET shorter == StringsUpTo(S, n - 1)
         IN  shorter \cup {Append(q, x) : q \in shorter, x \in S}

VersionParams == StringsUpTo(ParamChars, MaxParam)

FilePaths == [name : {"schema"}, ext : {".json", ".yml", ".YAML", ""}]

PathString(filepath) ==
    IF filepath.ext = "" THEN << filepath.name >> ELSE << filepath.name, filepath.ext >>

(* fmt.Sprintf("/v%d/%s", version, filepath) *)
SchemaFile(version, filepath) ==
    << "/", "v" >> \o Itoa(version) \o << "/" >> \o PathString(filepath)

(* The files of the schema file system. *)
SchemaFiles ==
    {SchemaFile(1, [name |-> "schema", ext |-> ".json"]),
     SchemaFile(1, [name |-> "schema", ext |-> ".yml"]),
     SchemaFile(2, [name |-> "schema", ext |-> ".YAML"])}

(* strings.ToLower on the extensions there are. *)
ToLower(ext) == IF ext = ".YAML" THEN ".yaml" ELSE ext

(* The Content-Type the file server finds for a file by its extension. *)
TypeByExtension(ext) == IF ext = ".json" THEN ContentTypeJson ELSE ContentTypePlain

(* http.FileServer: the file is looked up; it is served with the         *)
(* Content-Type of the response, or with its own when there is none; a   *)
(* file that is not there is answered 404.                               *)
fileServerServeHTTP(rw, file, ext) ==
    IF file \in SchemaFiles
    THEN [status |-> StatusOK,
          contentType |-> IF rw.contentType = "" THEN TypeByExtension(ext)
                          ELSE rw.contentType,
          body |-> file,
          file |-> file]
    ELSE [status |-> StatusNotFound, contentType |-> ContentTypePlain,
          body |-> << >>, file |-> file]

(* schemaHandler.ServeHTTP *)
schemaServeHTTP(rw, versionStr, filepath) ==
    LET v == Atoi(versionStr)
    IN  IF v.err \/ v.val < 1
        THEN [rw EXCEPT !.status = StatusNotFound]
        ELSE LET file == SchemaFile(v.val, filepath)
                 rw1 == IF ToLower(filepath.ext) \in {".yaml", ".yml"}
                        THEN [rw EXCEPT !.contentType = ContentTypeOctetStream]
                        ELSE [rw EXCEPT !.contentType = ""]
             IN  fileServerServeHTTP(rw1, file, filepath.ext)

schemaRest == <<phase, config, handlers, added, globalRouter, apiRouters,
                req, res, d, pc, idx, ran, router, rcv,
                spanVars, poolVars, listenerVars, runVars, lastAdd, taskVars>>

(* The global router matches a request to the schema route and binds its *)
(* version and filepath parameters.                                      *)
SchemaReceive(versionStr, filepath) ==
    /\ phase = "serving"
    /\ schemaCall = NoSchemaCall
    /\ schemaCall' = [version |-> versionStr, filepath |-> filepath,
                      rw |-> NoSchemaResponse, served |-> FALSE]
    /\ UNCHANGED schemaRest

(* The schema handler serves the request. *)
SchemaServe ==
    /\ schemaCall # NoSchemaCall
    /\ ~schemaCall.served
    /\ schemaCall' = [schemaCall EXCEPT
                        !.rw = schemaServeHTTP(schemaCall.rw, schemaCall.version,
                                               schemaCall.filepath),
                        !.served = TRUE]
    /\ UNCHANGED schemaRest

(* The request is gone. *)
SchemaDone ==
    /\ schemaCall.served
    /\ schemaCall' = NoSchemaCall
    /\ UNCHANGED schemaRest

NextSchema ==
    \/ Run(1)
    \/ \E versionStr \in VersionParams : \E filepath \in FilePaths :
         SchemaReceive(versionStr, filepath)
    \/ SchemaServe
    \/ SchemaDone

SpecSchema == Init /\ [][NextSchema]_vars

-----------------------------------------------------------------------------
(* Service.ServeHTTP in several goroutines at once: what each goroutine  *)
(* does with the two pools and with the objects it takes out of them     *)

serviceOnly == <<phase, config, handlers, added, globalRouter, apiRouters,
                 req, res, d, pc, idx, ran, router, rcv,
                 spanVars, poolVars, listenerVars, runVars, lastAdd, schemaCall>>

(* The objects no pool holds and no goroutine refers to: what New makes. *)
Fresh(kind) ==
    {o \in Objects : o \notin pools[kind] /\ \A t \in Tasks : tasks[t][kind] # o}

(* sync.Pool.Get: one of the pooled objects, or a new one. *)
PoolGet(kind) == pools[kind] \cup Fresh(kind)

(* The server calls ServeHTTP in goroutine t; the CORS pre-check ends a  *)
(* preflight request at once.                                            *)
ServeBegin(t, preflight) ==
    /\ phase = "serving"
    /\ tasks[t].pc = "idle"
    /\ tasks' = [tasks EXCEPT ![t].pc = IF preflight THEN "putRes" ELSE "getRes"]
    /\ UNCHANGED <<serviceOnly, heap, pools>>

(* res = responseWriterPool.Get() *)
GetWriter(t) ==
    /\ tasks[t].pc = "getRes"
    /\ \E o \in PoolGet("res") :
         /\ tasks' = [tasks EXCEPT ![t].pc = "initRes", ![t].res = o]
         /\ pools' = [pools EXCEPT !.res = @ \ {o}]
    /\ UNCHANGED <<serviceOnly, heap>>

(* res.init(rw): the object is bound to the connection of this request. *)
InitWriter(t) ==
    /\ tasks[t].pc = "initRes"
    /\ heap' = [heap EXCEPT !.res[tasks[t].res] = t]
    /\ tasks' = [tasks EXCEPT ![t].pc = "getD"]
    /\ UNCHANGED <<serviceOnly, pools>>

(* d = handlerDetailsPool.Get() *)
GetDetails(t) ==
    /\ tasks[t].pc = "getD"
    /\ \E o \in PoolGet("d") :
         /\ tasks' = [tasks EXCEPT ![t].pc = "initD", ![t].d = o]
         /\ pools' = [pools EXCEPT !.d = @ \ {o}]
    /\ UNCHANGED <<serviceOnly, heap>>

(* d.init(...): the object takes the request id of this request. *)
InitDetails(t) ==
    /\ tasks[t].pc = "initD"
    /\ heap' = [heap EXCEPT !.d[tasks[t].d] = t]
    /\ tasks' = [tasks EXCEPT ![t].pc = "chain"]
    /\ UNCHANGED <<serviceOnly, pools>>

(* A panic before the span finalizer is deferred: the outermost deferred *)
(* function runs next.                                                   *)
SetupPanics(t) ==
    /\ tasks[t].pc \in {"getRes", "initRes", "getD", "initD"}
    /\ tasks' = [tasks EXCEPT ![t].pc = "putRes"]
    /\ UNCHANGED <<serviceOnly, heap, pools>>

(* The middleware chain and the routed handler: the version goes into   *)
(* the object d refers to, the status into the object res refers to,     *)
(* which are from then on of this request.                               *)
Handle(t) ==
    /\ tasks[t].pc = "chain"
    /\ heap' = [heap EXCEPT !.res[tasks[t].res] = t, !.d[tasks[t].d] = t]
    /\ tasks' = [tasks EXCEPT ![t].pc = "finalize"]
    /\ UNCHANGED <<serviceOnly, pools>>

(* Variant: the span finalizer puts res back before it reads it. *)
FinalizeSpan_PutsFirst(t) ==
    /\ tasks[t].pc = "finalize"
    /\ tasks' = [tasks EXCEPT ![t].pc = "putRes"]
    /\ pools' = [pools EXCEPT !.res = @ \cup {tasks[t].res}]
    /\ UNCHANGED <<serviceOnly, heap>>

(* The span finalizer: the last use of res and d, it reads the status    *)
(* and writes the access-log record of the request.                      *)
FinalizeSpan(t) ==
    /\ tasks[t].pc = "finalize"
    /\ tasks' = [tasks EXCEPT ![t].pc = "putRes"]
    /\ UNCHANGED <<serviceOnly, heap, pools>>

(* The outermost deferred function: responseWriterPool.Put(res) when res *)
(* is not nil.                                                           *)
PutWriter(t) ==
    /\ tasks[t].pc = "putRes"
    /\ tasks' = [tasks EXCEPT ![t].pc = "putD"]
    /\ pools' = IF tasks[t].res # 0
                THEN [pools EXCEPT !.res = @ \cup {tasks[t].res}] ELSE pools
    /\ UNCHANGED <<serviceOnly, heap>>

(* The outermost deferred function: handlerDetailsPool.Put(d) when d is  *)
(* not nil; ServeHTTP returns and the request is over: what objects      *)
(* carry of it is the state of no request being served.                  *)
PutDetails(t) ==
    /\ tasks[t].pc = "putD"
    /\ tasks' = [tasks EXCEPT ![t] = NoTask]
    /\ pools' = IF tasks[t].d # 0
                THEN [pools EXCEPT !.d = @ \cup {tasks[t].d}] ELSE pools
    /\ heap' = [res |-> [o \in Objects |->
                           IF heap.res[o] = t THEN NoWriter ELSE heap.res[o]],
                d |-> [o \in Objects |->
                           IF heap.d[o] = t THEN NoDetails ELSE heap.d[o]]]
    /\ UNCHANGED serviceOnly

(* The runtime empties the pools: the objects are garbage, and an       *)
(* object New makes later is a zero value.                               *)
PoolsCollected ==
    /\ pools # [res |-> {}, d |-> {}]
    /\ pools' = [res |-> {}, d |-> {}]
    /\ heap' = [res |-> [o \in Objects |->
                           IF o \in pools.res THEN NoWriter ELSE heap.res[o]],
                d |-> [o \in Objects |->
                           IF o \in pools.d THEN NoDetails ELSE heap.d[o]]]
    /\ UNCHANGED <<serviceOnly, tasks>>

NextTasks ==
    \/ Run(1)
    \/ \E t \in Tasks : \E preflight \in BOOLEAN : ServeBegin(t, preflight)
    \/ \E t \in Tasks : GetWriter(t)
    \/ \E t \in Tasks : InitWriter(t)
    \/ \E t \in Tasks : GetDetails(t)
    \/ \E t \in Tasks : InitDetails(t)
    \/ \E t \in Tasks : SetupPanics(t)
    \/ \E t \in Tasks : Handle(t)
    \/ \E t \in Tasks : FinalizeSpan(t)
    \/ \E t \in Tasks : PutWriter(t)
    \/ \E t \in Tasks : PutDetails(t)
    \/ PoolsCollected

(* Requests served at the same time by one service. *)
InitTasks ==
    /\ config = [min |-> 1, max |-> MaxVersion, metrics |-> TRUE, cors |-> TRUE]
    /\ Constructed

SpecTasks == InitTasks /\ [][NextTasks]_vars

-----------------------------------------------------------------------------
(* Properties *)

(* The request is in flight and component h ran in the latest step. *)
AfterHandler(h) ==
    /\ pc \in {"chain", "finalize"}
    /\ ran # << >>
    /\ ran[Len(ran)] = h

InRan(h) == \E i \in 1..Len(ran) : ran[i] = h

Supported(t) == \E i \in 1..Len(negotiatedContentTypes) : negotiatedContentTypes[i] = t

Requested == Atoi(req.apiVersion)

(* C1: a request without a version header resolves to the maximum        *)
(* version: the version handler writes no response, echoes the maximum   *)
(* in the response version header and stores it in the handler details.  *)
C1_AbsentHeaderResolvesToMax ==
    (AfterHandler("version") /\ req.apiVersion = << >>)
        => /\ ~res.written
           /\ res.status = 0
           /\ res.body = NoBody
           /\ Len(res.apiVersion) = 1
           /\ Atoi(res.apiVersion[1]) = [err |-> FALSE, val |-> config.max]
           /\ d.apiVersion = config.max

C1_Witness ==
    /\ AfterHandler("version")
    /\ req.apiVersion = << >>
    /\ config.min < config.max
    /\ d.apiVersion = config.max
    /\ res.apiVersion = << Itoa(config.max) >>

(* C2: a numeric version v with 1 <= v < min is answered with 410 and an *)
(* error payload that carries the minimum supported version.             *)
C2_TooOldIsGone ==
    (AfterHandler("version") /\ ~Requested.err
       /\ 1 <= Requested.val /\ Requested.val < config.min)
        => /\ res.written
           /\ res.status = StatusGone
           /\ res.body = [code |-> EcodeApiVersionTooOld, arg |-> config.min]

C2_Witness ==
    /\ AfterHandler("version")
    /\ req.apiVersion = << "1" >>
    /\ config.min = 2
    /\ res.status = StatusGone
    /\ res.body.arg = 2

C4_InvalidIsBadRequest ==
    (AfterHandler("version") /\ req.apiVersion # << >>
       /\ (Requested.err \/ Requested.val < 1))
        => /\ res.written
           /\ res.status = StatusBadRequest
           /\ res.status \notin {StatusGone, StatusNotImplemented}
           /\ res.body = [code |-> EcodeApiVersionInvalid, arg |-> NoArg]

C4_Witness ==
    /\ AfterHandler("version")
    /\ req.apiVersion = << "0" >>
    /\ config.min = 2
    /\ res.status = StatusBadRequest

(* C5: the version handler adds a version to the response headers and    *)
(* stores it in the handler details exactly when it resolves the         *)
(* version, the stored value v has min <= v <= max, and a rejection      *)
(* (400, 410, 501) adds no version header and leaves the handler         *)
(* details' version as it was.                                           *)
C5_AfterVersion ==
    AfterHandler("version")
        => IF res.written
           THEN /\ res.status \in {StatusBadRequest, StatusGone, StatusNotImplemented}
                /\ res.apiVersion = << >>
           ELSE /\ res.apiVersion = << Itoa(d.apiVersion) >>
                /\ config.min <= d.apiVersion
                /\ d.apiVersion <= config.max

C5_VersionStep ==
    (pc = "chain" /\ idx <= Len(handlers) /\ handlers[idx] = "version")
        => IF res'.written
           THEN d' = d /\ res'.apiVersion = res.apiVersion
           ELSE d'.apiVersion # d.apiVersion /\ res'.apiVersion # res.apiVersion

C5_RecordedIffResolved == [](C5_AfterVersion) /\ [][C5_VersionStep]_vars

C5_Witness ==
    /\ AfterHandler("version")
    /\ req.apiVersion = << "+", "1" >>
    /\ ~res.written
    /\ d.apiVersion = 1
    /\ res.apiVersion = << << "1" >> >>

Routers == {"globalRouter", "apiRouter"}

(* The components that served the request are a prefix of the middleware *)
(* stack in list order, followed at most by one router once the whole    *)
(* stack has run.                                                        *)
RanInOrder ==
    /\ Len(ran) <= Len(handlers) + 1
    /\ \A i \in 1..Len(ran) :
         IF i <= Len(handlers) THEN ran[i] = handlers[i] ELSE ran[i] \in Routers

(* C6 as stated: the version handler is the first entry to serve a       *)
(* request and the negotiator the second, then the caller's handlers in  *)
(* the order added, all before routing.                                  *)
C6_VersionFirst ==
    /\ Len(ran) >= 1 => ran[1] = "version"
    /\ Len(ran) >= 2 => ran[2] = "negotiator"
    /\ SubSeq(handlers, 3, Len(handlers)) = added
    /\ RanInOrder

(* C6, amended: the stack starts with the content negotiator, then the   *)
(* version handler, then the caller's handlers in the order added, and   *)
(* they run in that order before routing.                                *)
C6_NegotiatorFirst ==
    /\ handlers = << "negotiator", "version" >> \o added
    /\ RanInOrder

C6_Witness ==
    /\ added = << "limit", "auth" >>
    /\ ran = << "negotiator", "version", "limit", "auth", "apiRouter" >>

(* C7: the middleware entries run in list order and the chain stops at   *)
(* the first entry that has written a response: no later entry and no    *)
(* router runs for that request; a router runs only after the whole      *)
(* chain ran without writing.                                            *)
C7_ChainState ==
    /\ RanInOrder
    /\ pc = "chain" => (~res.written /\ idx = Len(ran) + 1)
    /\ (\E i \in 1..Len(ran) : ran[i] \in Routers) => Len(ran) = Len(handlers) + 1

C7_WrittenStep ==
    (pc \in {"chain", "finalize"} /\ res.written) => (ran' = ran /\ router' = router)

C7_WrittenStopsChain == [](C7_ChainState) /\ [][C7_WrittenStep]_vars

C7_Witness ==
    /\ pc = "done"
    /\ res.written
    /\ res.status = StatusForbidden
    /\ ran = << "negotiator", "version", "auth" >>
    /\ handlers = << "negotiator", "version", "auth", "limit" >>
    /\ router = 0

Unmatched == req.accept # << >> /\ \A i \in 1..Len(req.accept) : ~Supported(req.accept[i])

(* C8: without an Accept header the negotiator sets the response         *)
(* Content-Type to the first accepted format; with an Accept header that *)
(* names an accepted format it sets it to that format; in both cases it  *)
(* writes no response.                                                   *)
C8_NegotiatedContentType ==
    (AfterHandler("negotiator") /\ ~Unmatched)
        => /\ ~res.written
           /\ res.status = 0
           /\ res.body = NoBody
           /\ Supported(res.contentType)
           /\ req.accept = << >> => res.contentType = negotiatedContentTypes[1]
           /\ req.accept # << >> =>
                \E i \in 1..Len(req.accept) : req.accept[i] = res.contentType
           /\ (req.accept # << >> /\ Supported(req.accept[1])) =>
                res.contentType = req.accept[1]

C8_Witness ==
    /\ AfterHandler("negotiator")
    /\ req.accept = << ContentTypeXml >>
    /\ res.contentType = ContentTypeXml
    /\ ~res.written

(* C9: with an Accept header that matches no accepted format the         *)
(* negotiator sets no Content-Type and writes no response.               *)
C9_UnmatchedIsSoftFail ==
    (AfterHandler("negotiator") /\ Unmatched)
        => /\ res.contentType = ""
           /\ ~res.written
           /\ res.status = 0

ValidVersion ==
    \/ req.apiVersion = << >>
    \/ /\ ~Requested.err
       /\ config.min <= Requested.val
       /\ Requested.val <= config.max

(* C10: a request whose Accept header matches no accepted format and     *)
(* whose version is valid passes through the remaining middleware and    *)
(* ends at a router, unless a caller's handler answered it; the          *)
(* negotiator does not end it with a 406.                                *)
C10_UnmatchedStillRouted ==
    (pc = "done" /\ Unmatched /\ ValidVersion)
        => /\ InRan("version")
           /\ ran[Len(ran)] \in Routers \cup CallerHandlers

(* The request went through the whole middleware chain and was routed. *)
Routed == pc = "finalize" /\ Len(ran) = Len(handlers) + 1

(* C11: a request that reaches routing is served by the global router    *)
(* when its path has a global route, whatever its version, and no        *)
(* versioned router is used; otherwise it goes to the router of exactly  *)
(* the version in the handler details, and a path with no route there is *)
(* answered 404 with no body.                                            *)
C11_GlobalThenVersioned ==
    Routed =>
        IF req.path \in globalRouter
        THEN /\ ran[Len(ran)] = "globalRouter"
             /\ router = 0
        ELSE /\ ran[Len(ran)] = "apiRouter"
             /\ router = d.apiVersion
             /\ router \in DOMAIN apiRouters
             /\ req.path \notin apiRouters[router] =>
                    /\ res.written
                    /\ res.status = StatusNotFound
                    /\ res.body = NoBody
                    /\ res.size = 0

C11_Witness ==
    /\ Routed
    /\ ran[Len(ran)] = "apiRouter"
    /\ router = 1
    /\ config.max = 2
    /\ apiRouters[2] = {ResourcePath}
    /\ req.path = ResourcePath
    /\ res.status = StatusNotFound

(* The parts of the X-Request-Id request header. *)
InboundParts == Split(req.requestId, ":")

(* The part is the decimal string of a positive int64. *)
ParsesPositive(part) == ~ParseInt(part).err /\ Positive(ParseInt(part).val)

(* The header has the form traceId:parentId with two positive integers. *)
NamesTrace ==
    /\ req.requestId # << >>
    /\ Len(InboundParts) = 2
    /\ ParsesPositive(InboundParts[1])
    /\ ParsesPositive(InboundParts[2])

(* C12: a request whose correlation header is traceId:parentId with both *)
(* parts parsing to positive integers runs in that trace with that       *)
(* parent; every other request runs in a newly generated trace and no    *)
(* inbound value is used; in both cases the response correlation header  *)
(* is the decimal string of the trace id from before the first           *)
(* middleware handler runs.                                              *)
C12_TraceFromHeaderOrFresh ==
    held.res =>
        /\ IF NamesTrace
           THEN /\ trace.traceId = ParseInt(InboundParts[1]).val
                /\ trace.parentId = ParseInt(InboundParts[2]).val
           ELSE /\ trace.traceId \in GeneratedIDs
                /\ trace.parentId = Int64Zero
        /\ res.requestId = FormatInt(trace.traceId)

(* ServeHTTP is past the deferred function of the span, which ran to its *)
(* end.                                                                  *)
Finalized == pc \in {"done", "returned"} /\ held.res /\ escaped = NoPanic

(* C13: when a middleware handler or a routed handler has panicked with  *)
(* something other than context.Canceled, the request ends with exactly  *)
(* one response, of status 500 with the internal error code, and an      *)
(* error entry with the stack is logged.                                 *)
C13_PanicIsOneInternalError ==
    (Finalized /\ rcv \notin {NoPanic, Canceled})
        => /\ res.writes = 1
           /\ res.status = StatusInternalServerError
           /\ res.body = NewError(EcodeInternal, NoArg)
           /\ \E i \in 1..Len(serviceLog) :
                 serviceLog[i] = [level |-> "error", stack |-> TRUE]

(* C16: the status and headers of a response are written at most once:  *)
(* once the written flag is set no middleware handler, router, handler   *)
(* or deferred function writes again, also not after a handler that has  *)
(* written panics.                                                       *)
C16_WrittenAtMostOnce ==
    /\ res.writes <= 1
    /\ res.written <=> res.writes = 1

(* C17: when a handler has panicked with context.Canceled, no 500        *)
(* response is produced and no stack is logged; the access-log record    *)
(* has the marker status 418 and is logged at info level; the marker is  *)
(* not written to the client as the status of the response.              *)
C17_CancelIsBenign ==
    (Finalized /\ rcv = Canceled)
        => /\ res.status # StatusInternalServerError
           /\ res.body # NewError(EcodeInternal, NoArg)
           /\ serviceLog = << >>
           /\ accessLog = << [status |-> StatusTeapot, level |-> "info"] >>
           /\ res.status # StatusTeapot

(* C14: the response writer and the handler details a request took from  *)
(* the pools are each put back exactly once when the request finishes,   *)
(* whichever way it went (answered by a middleware handler, global       *)
(* route, versioned route, recovered panic of a handler, panic in the    *)
(* deferred function of the span), and not before that function is done. *)
C14_PutsState ==
    /\ pc \in {"chain", "finalize"} => (held.res /\ held.d)
    /\ pc # "returned" => puts = [res |-> 0, d |-> 0]
    /\ pc = "returned" =>
          /\ puts.res = IF held.res THEN 1 ELSE 0
          /\ puts.d = IF held.d THEN 1 ELSE 0
          /\ held.res => Pooled(res) \in resPool
          /\ held.d => d \in dPool

C14_PutStep ==
    (resPool' \ resPool # {} \/ dPool' \ dPool # {} \/ puts' # puts)
        => \/ pc = "done" /\ pc' = "returned"
           \/ pc = "returned" /\ pc' = "idle"

C14_PutBackOnce == [](C14_PutsState) /\ [][C14_PutStep]_vars

C14_Witness ==
    /\ pc = "returned"
    /\ rcv = "handler panic"
    /\ escaped = "finalizer panic"
    /\ ran[Len(ran)] = "apiRouter"
    /\ puts = [res |-> 1, d |-> 1]
    /\ Pooled(res) \in resPool
    /\ d \in dPool

(* C15: the response writer and the handler details handed to a request  *)
(* hold nothing of the request that used them before: when the first     *)
(* middleware handler runs, the written flag, status and byte count are  *)
(* reset, the version is 0, and trace id, progress marker and request    *)
(* are those of the new request.                                         *)
C15_NothingLeftOver ==
    /\ (pc = "chain" /\ ran = << >>) =>
          /\ ~res.written
          /\ res.status = 0
          /\ res.size = 0
          /\ d.apiVersion = 0
          /\ d.progress = HandlerBegin
    /\ held.d =>
          /\ d.requestId = FormatInt(trace.traceId)
          /\ d.request = req

C15_Witness ==
    /\ pc = "chain"
    /\ ran = << >>
    /\ acquired.res.written
    /\ acquired.res.status = StatusOK
    /\ acquired.res.size > 0
    /\ acquired.d.apiVersion = 2
    /\ acquired.d.progress = "resource"
    /\ acquired.d.requestId = << "5" >>
    /\ acquired.d.request # req
    /\ trace.traceId \in GeneratedIDs

(* C19: a request that entered the span gets exactly one access-log      *)
(* record, emitted when the middleware and routing work is over, however *)
(* the request ended (answered by a middleware handler, global route,    *)
(* versioned route, recovered panic); the record is logged at error      *)
(* level exactly when its status is 5xx and at info level otherwise, and *)
(* after a recovered panic other than a cancelation its status is 500.   *)
C19_OneAccessRecord ==
    /\ pc \in {"chain", "finalize"} => accessLog = << >>
    /\ Finalized =>
          /\ Len(accessLog) = 1
          /\ accessLog[1].level \in {"info", "error"}
          /\ accessLog[1].level = "error" <=>
                (500 <= accessLog[1].status /\ accessLog[1].status <= 599)
          /\ rcv = NoPanic => accessLog[1].status = res.status
          /\ rcv \notin {NoPanic, Canceled} =>
                accessLog[1].status = StatusInternalServerError

C19_Witness ==
    /\ Finalized
    /\ rcv = "handler panic"
    /\ ran[Len(ran)] = "auth"
    /\ accessLog = << [status |-> StatusInternalServerError, level |-> "error"] >>

Preflight == req.method = "OPTIONS" /\ config.cors

(* C20: on a service with CORS an OPTIONS request is ended by the CORS   *)
(* pre-check alone: no correlation id is resolved or echoed, nothing is  *)
(* taken from or put into the pools, no middleware handler and no router *)
(* runs and no access-log record is emitted.  On a service without CORS  *)
(* an OPTIONS request goes the way of every other request (when no panic *)
(* ends ServeHTTP before the span).                                      *)
C20_PreflightState ==
    /\ Preflight =>
          /\ pc \in {"done", "returned"}
          /\ trace = NoTrace
          /\ res.requestId = << >>
          /\ ~res.written
          /\ held = [res |-> FALSE, d |-> FALSE]
          /\ puts = [res |-> 0, d |-> 0]
          /\ ran = << >>
          /\ router = 0
          /\ accessLog = << >>
    /\ (req.method = "OPTIONS" /\ ~config.cors /\ escaped # SetupPanic) =>
          /\ held = [res |-> TRUE, d |-> TRUE]
          /\ res.requestId = FormatInt(trace.traceId)
          /\ pc \in {"done", "returned"} => (ran # << >> /\ ran[1] = handlers[1])
          /\ Finalized => Len(accessLog) = 1
          /\ pc = "returned" => puts = [res |-> 1, d |-> 1]

C20_PreflightStep ==
    ((Preflight \/ (config.cors /\ req'.method = "OPTIONS")) /\ pc' # "idle")
        => UNCHANGED poolVars

C20_PreflightEndsOptions == [](C20_PreflightState) /\ [][C20_PreflightStep]_vars

C20_Witness ==
    /\ Preflight
    /\ pc = "returned"
    /\ resPool # {}
    /\ dPool # {}
    /\ res.cors

(* C18: after a stop request the listener is draining and never accepts  *)
(* a connection again; the blocked Accept returns the listener-stopped   *)
(* error, on which Service.Run returns nil, while any other error of     *)
(* serving is returned by Run as it is; the requests of connections      *)
(* accepted before the stop are served to their end.                     *)
C18_ListenerState ==
    /\ runErr \in {NotReturned, NoError, AcceptError}
    /\ runErr = NoError => listener \in {"draining", "closed"}

C18_ListenerStep ==
    /\ listener \in {"draining", "closed"} =>
          /\ listener' \in {"draining", "closed"}
          /\ \A c \in Conns : conns'[c] = "serving" => conns[c] = "serving"
    /\ (listener = "accepting" /\ listener' # listener) => listener' = "draining"
    /\ \A c \in Conns : conns[c] # "free" => conns'[c] \in {conns[c], "served"}
    /\ runErr' # runErr =>
          /\ runErr = NotReturned
          /\ runErr' = IF listener = "draining" THEN NoError ELSE AcceptError

C18_GracefulStop ==
    /\ [](C18_ListenerState)
    /\ [][C18_ListenerStep]_vars
    /\ \A c \in Conns : (conns[c] = "serving") ~> (conns[c] = "served")
    /\ (listener = "draining") ~> (runErr # NotReturned)

C18_Witness ==
    /\ listener = "closed"
    /\ runErr = NoError
    /\ conns[1] = "served"
    /\ conns[2] = "serving"
    /\ conns[3] = "free"

(* C21: no panic leaves ServeHTTP.  A panic raised before the span       *)
(* finalizer is deferred, or by the finalizer itself, reaches the         *)
(* outermost deferred function only: ServeHTTP then returns, an error     *)
(* entry with the stack is logged, the dispatcher writes no response for  *)
(* that panic, and exactly the objects taken from the pools so far are    *)
(* put back.                                                              *)
C21_GuardState ==
    /\ escaped # NoPanic => pc \in {"done", "returned"}
    /\ escaped = SetupPanic =>
          /\ ~res.written
          /\ res.writes = 0
          /\ res.body = NoBody
          /\ ran = << >>
          /\ accessLog = << >>
    /\ (pc = "returned" /\ escaped # NoPanic) =>
          /\ serviceLog # << >>
          /\ serviceLog[Len(serviceLog)] = [level |-> "error", stack |-> TRUE]
          /\ puts.res = IF held.res THEN 1 ELSE 0
          /\ puts.d = IF held.d THEN 1 ELSE 0
          /\ held.res => Pooled(res) \in resPool
          /\ held.d => d \in dPool

C21_GuardStep ==
    /\ pc = "done" =>
          /\ pc' = "returned"
          /\ res' = res
          /\ escaped' = escaped
          /\ escaped # NoPanic =>
                serviceLog' = Append(serviceLog, [level |-> "error", stack |-> TRUE])
    /\ (pc = "finalize" /\ escaped' # NoPanic) =>
          /\ res' = res
          /\ accessLog' = accessLog

Truthy(h) == h \in {"true"}

(* C22: once the content negotiator has run, the response carries the    *)
(* inhibit-response header exactly when the request carried it with a    *)
(* truthy value, whether or not a content type was negotiated.           *)
C22_InhibitForwarded ==
    InRan("negotiator") => (res.inhibitResponse # "" <=> Truthy(req.inhibitResponse))

(* The middleware chain has run without a response and the path has no  *)
(* global route: the dispatcher is about to look up the versioned router. *)
AtVersionedRouter ==
    /\ pc = "chain"
    /\ idx > Len(handlers)
    /\ req.path \notin globalRouter

(* C23: when the dispatcher looks up the versioned router, the version   *)
(* in the handler details lies within [min, max] and has a router, and   *)
(* no request ends in the dereference of a missing router.               *)
C23_RouterExists ==
    /\ AtVersionedRouter =>
          /\ config.min <= d.apiVersion
          /\ d.apiVersion <= config.max
          /\ d.apiVersion \in DOMAIN apiRouters
    /\ rcv # "nil pointer dereference"

C23_Witness ==
    /\ AtVersionedRouter
    /\ added # << >>
    /\ req.apiVersion = << >>
    /\ req.accept # << >>
    /\ config.min < config.max
    /\ d.apiVersion = config.max

(* Goroutine t still uses the object it took from the pool of that kind: *)
(* from Get up to and including its own Put.                             *)
UsesWriter(t) ==
    tasks[t].res # 0 /\ tasks[t].pc \in {"initRes", "getD", "initD", "chain", "finalize", "putRes"}

UsesDetails(t) ==
    tasks[t].d # 0 /\ tasks[t].pc \in {"initD", "chain", "finalize", "putRes", "putD"}

(* C24: while requests are served concurrently, a pooled responseWriter  *)
(* or handlerDetails object is used by at most one request and is not in *)
(* its pool while in use; it is put back only by the request that took   *)
(* it, in that request's outermost deferred function; and what a         *)
(* request's handlers and span finalizer find in its objects             *)
(* (connection, status, request id, version) is what was set for that    *)
(* request.                                                              *)
C24_ExclusiveState ==
    /\ \A t \in Tasks :
          /\ UsesWriter(t) => tasks[t].res \notin pools.res
          /\ UsesDetails(t) => tasks[t].d \notin pools.d
          /\ tasks[t].pc \in {"chain", "finalize"} =>
                /\ heap.res[tasks[t].res] = t
                /\ heap.d[tasks[t].d] = t
    /\ \A t, u \in Tasks :
          t # u =>
             /\ (UsesWriter(t) /\ UsesWriter(u)) => tasks[t].res # tasks[u].res
             /\ (UsesDetails(t) /\ UsesDetails(u)) => tasks[t].d # tasks[u].d

C24_PutStep ==
    /\ \A o \in pools'.res \ pools.res :
          \E t \in Tasks : /\ tasks[t].pc = "putRes"
                           /\ tasks[t].res = o
                           /\ tasks'[t].pc = "putD"
    /\ \A o \in pools'.d \ pools.d :
          \E t \in Tasks : /\ tasks[t].pc = "putD"
                           /\ tasks[t].d = o
                           /\ tasks'[t].pc = "idle"

C24_PooledObjectHasOneHolder == [](C24_ExclusiveState) /\ [][C24_PutStep]_vars

(* Two requests are served at once, each with objects of its own: one   *)
(* is in its handlers, the other before its span finalizer.              *)
C24_Witness ==
    /\ tasks[2].pc = "finalize"
    /\ tasks[2].res = 1
    /\ tasks[2].d = 1
    /\ tasks[1].pc = "chain"
    /\ tasks[1].res = 2
    /\ tasks[1].d = 2
    /\ heap.res[2] = 1
    /\ heap.res[1] = 2
    /\ pools = [res |-> {}, d |-> {}]

(* C25: over the calls of Service.Run made on one service, one after the *)
(* other or at the same time, run executes exactly once, in the first    *)
(* call; no other call starts anything up or opens a listener, and every *)
(* other call returns nil.                                               *)
C25_RunState ==
    /\ runs <= 1
    /\ runs = 0 <=> \A c \in Callers : calls[c].pc = "idle"
    /\ runs = 0 <=> phase = "setup"
    /\ Cardinality({c \in Callers : calls[c].pc = "run"}) <= 1
    /\ Cardinality({c \in Callers : calls[c].err \notin {NotReturned, NoError}}) <= 1
    /\ \A c \in Callers : calls[c].pc \in {"idle", "run", "blocked"} <=> calls[c].err = NotReturned

C25_RunStep ==
    /\ runs' # runs =>
          /\ runs = 0
          /\ \E c \in Callers : calls[c].pc = "idle" /\ calls'[c].pc = "run"
    /\ runs' = runs =>
          /\ phase' = phase
          /\ globalRouter' = globalRouter
          /\ listener' = "accepting" => listener = "accepting"
    /\ \A c \in Callers :
          (calls[c].pc \in {"idle", "blocked"} /\ calls'[c].pc = "returned")
              => calls'[c].err = NoError

C25_RunsOnce == [](C25_RunState) /\ [][C25_RunStep]_vars

(* One call has executed run and returned its error; the other call has  *)
(* returned nil.                                                         *)
C25_Witness ==
    /\ runs = 1
    /\ calls[2] = [pc |-> "returned", err |-> AcceptError]
    /\ calls[1] = [pc |-> "returned", err |-> NoError]
    /\ once = "done"
    /\ listener = "accepting"

InRange(v) == config.min <= v /\ v <= config.max

(* C26: the service has a router for each version of [min, max] and for  *)
(* no other; Router gives the router of a version in that range and an   *)
(* error for any other version; AddResource with a version out of range  *)
(* returns that error and leaves the routes of every router as they are. *)
C26_RoutersState ==
    /\ DOMAIN apiRouters = {v \in Versions : InRange(v)}
    /\ \A v \in Versions :
          /\ Router(v).err <=> ~InRange(v)
          /\ ~Router(v).err => (Router(v).router = v /\ v \in DOMAIN apiRouters)
    /\ lastAdd # NoAdd => (lastAdd.err = OutOfRange <=> ~InRange(lastAdd.version))
    /\ lastAdd # NoAdd => (lastAdd.err = NoError <=> InRange(lastAdd.version))

C26_AddStep ==
    /\ (lastAdd' # lastAdd /\ lastAdd'.err = OutOfRange) => apiRouters' = apiRouters
    /\ apiRouters' # apiRouters =>
          /\ lastAdd'.err = NoError
          /\ \A v \in DOMAIN apiRouters :
                v # lastAdd'.version => apiRouters'[v] = apiRouters[v]

C26_OneRouterPerVersion == [](C26_RoutersState) /\ [][C26_AddStep]_vars

(* A resource is registered, then AddResource is called with a version   *)
(* above the maximum.                                                    *)
C26_Witness ==
    /\ lastAdd = [version |-> config.max + 1, err |-> OutOfRange]
    /\ config.min = config.max
    /\ apiRouters[config.max] = {"/s"}
    /\ phase = "setup"

(* The version parameter is a "v" followed by the decimal digits of a    *)
(* number that is at least 1, and that number.                           *)
VForm(s) ==
    /\ Len(s) >= 2
    /\ s[1] = "v"
    /\ \A i \in 2..Len(s) : IsDigit(s[i])
    /\ ParseDigits(Tail(s), 0) >= 1

VNumber(s) == ParseDigits(Tail(s), 0)

(* C27: the schema handler takes a version parameter "v<N>" with N >= 1  *)
(* and asks the file system for /v<N>/<filepath>, which it serves as     *)
(* octet-stream when the extension is .yaml or .yml and with the file's  *)
(* own type otherwise; any other version parameter is answered 404 and   *)
(* the file system is not asked.                                         *)
C27_SchemaVersionParam ==
    schemaCall.served =>
        IF VForm(schemaCall.version)
        THEN LET file == SchemaFile(VNumber(schemaCall.version), schemaCall.filepath)
             IN  /\ schemaCall.rw.file = file
                 /\ file \in SchemaFiles =>
                       /\ schemaCall.rw.status = StatusOK
                       /\ schemaCall.rw.body = file
                       /\ schemaCall.rw.contentType =
                            IF ToLower(schemaCall.filepath.ext) \in {".yaml", ".yml"}
                            THEN ContentTypeOctetStream
                            ELSE TypeByExtension(schemaCall.filepath.ext)
        ELSE /\ schemaCall.rw.status = StatusNotFound
             /\ schemaCall.rw.file = << >>

=============================================================================
